---------------------------- MODULE Spec2Model ----------------------------
(***************************************************************************)
(* State-machine model of src/app.py (Solar_Energy_Data_App).             *)
(*                                                                         *)
(* Representation of Python values:                                        *)
(*   - a str is a sequence of one-character strings, so that strip() and   *)
(*     float() are computed character by character;                        *)
(*   - None is the one-element sequence <<"None">>, which no str equals;   *)
(*   - a coordinate is an integer number of 1e-5 degrees, a rounded        *)
(*     coordinate (a cache key component) an integer number of 1e-4        *)
(*     degrees;                                                            *)
(*   - temperature, cloud cover, intensity, daylight (2dp) and energy are  *)
(*     integers in hundredths of their unit;                               *)
(*   - a JSON value is a record with exactly one field naming its type:    *)
(*     [num |-> n], [str |-> s], [null |-> TRUE], [list |-> <<..>>],       *)
(*     [dict |-> [key |-> value, ...]].                                    *)
(***************************************************************************)
EXTENDS Integers, Sequences, FiniteSets, TLC

VARIABLES
    weather_cache,      \* lru_cache of get_weather_data_cached: LRU first, MRU last
    region_cache,       \* lru_cache of get_region_name_from_coords_cached
    REGION_FILE,        \* csv/india_regions.csv: [exists, rows]
    USER_QUERIES_FILE,  \* csv/User_Query.csv: [exists, rows]
    TOP_REGIONS_FILE,   \* csv/TOP_10_REGIONS.csv: [exists, rows]
    th,                 \* per request thread: program counter and locals
    served,             \* history: requests begun so far
    last_sample,        \* history: rounded key -> sample the last completed call returned
    recency             \* history: rounded weather keys, least recently called first

vars == <<weather_cache, region_cache, REGION_FILE, USER_QUERIES_FILE,
          TOP_REGIONS_FILE, th, served, last_sample, recency>>

---------------------------------------------------------------------------
(* Bounds of the model                                                     *)

\* number of requests the hosting layer serves in one behaviour
MaxRequests == 2
\* longest catalog drawn for a ranking pass
MaxCatalog == 11

(* Program constants                                                       *)

\* SOLAR_CONSTANT = 1367  (W/m2)
SOLAR_CONSTANT == 1367
\* @lru_cache(maxsize=512)
maxsize == 512
\* .head(10)
head_n == 10

---------------------------------------------------------------------------
(* Python values                                                           *)

None == <<"None">>

\* a raised exception, and a returned value
Raise(e) == [exc |-> e]
Return(v) == [val |-> v]
Raised(r) == "exc" \in DOMAIN r

Digits == {"0", "1", "2", "3", "4", "5", "6", "7", "8", "9"}

DigitVal(c) ==
    CASE c = "0" -> 0 [] c = "1" -> 1 [] c = "2" -> 2 [] c = "3" -> 3
      [] c = "4" -> 4 [] c = "5" -> 5 [] c = "6" -> 6 [] c = "7" -> 7
      [] c = "8" -> 8 [] c = "9" -> 9

RECURSIVE lstrip(_)
lstrip(s) == IF s # <<>> /\ Head(s) = " " THEN lstrip(Tail(s)) ELSE s

RECURSIVE rstrip(_)
rstrip(s) ==
    IF s # <<>> /\ s[Len(s)] = " " THEN rstrip(SubSeq(s, 1, Len(s) - 1)) ELSE s

\* str.strip()
strip(s) == rstrip(lstrip(s))

\* value of a digit string, most significant digit first
RECURSIVE DigitsVal(_)
DigitsVal(s) ==
    IF s = <<>> THEN 0 ELSE 10 * DigitsVal(SubSeq(s, 1, Len(s) - 1)) + DigitVal(s[Len(s)])

AllDigits(s) == \A i \in 1..Len(s) : s[i] \in Digits

Pow10(n) == CASE n = 0 -> 1 [] n = 1 -> 10 [] n = 2 -> 100 [] n = 3 -> 1000
              [] n = 4 -> 10000 [] n = 5 -> 100000

PointAt(s) == IF \E i \in 1..Len(s) : s[i] = "."
              THEN CHOOSE i \in 1..Len(s) : s[i] = "." /\ \A j \in 1..(i - 1) : s[j] # "."
              ELSE 0

\* float(s) for an unsigned decimal literal of at most five decimals: its
\* value in 1e-5 units, or ValueError raised
UnsignedFloat(s) ==
    LET p == PointAt(s)
        ip == IF p = 0 THEN s ELSE SubSeq(s, 1, p - 1)
        fp == IF p = 0 THEN <<>> ELSE SubSeq(s, p + 1, Len(s))
    IN  IF /\ AllDigits(ip) /\ AllDigits(fp)
           /\ Len(ip) + Len(fp) > 0
           /\ Len(fp) <= 5
        THEN Return(DigitsVal(ip) * 100000 + DigitsVal(fp) * Pow10(5 - Len(fp)))
        ELSE Raise("ValueError")

\* float(s): surrounding whitespace is ignored, an optional sign, then the
\* literal; anything else (the empty string included) raises ValueError
float(s) ==
    LET t == strip(s)
    IN  IF t = <<>> THEN Raise("ValueError")
        ELSE IF Head(t) = "-"
             THEN LET u == UnsignedFloat(Tail(t))
                  IN IF Raised(u) THEN u ELSE Return(0 - u.val)
        ELSE IF Head(t) = "+" THEN UnsignedFloat(Tail(t))
        ELSE UnsignedFloat(t)

\* n / d rounded to the nearest integer, ties to even, as round() rounds
RoundDiv(n, d) ==
    LET q == n \div d
        r == n % d
    IN  IF 2 * r < d THEN q
        ELSE IF 2 * r > d THEN q + 1
        ELSE IF q % 2 = 0 THEN q ELSE q + 1

\* round(x, 4) of a coordinate: 1e-5 units to 1e-4 units
round4(x) == RoundDiv(x, 10)

---------------------------------------------------------------------------
(* JSON payloads                                                           *)

Num(n) == [num |-> n]
Str(s) == [str |-> s]
Null == [null |-> TRUE]
List(l) == [list |-> l]
Dict(d) == [dict |-> d]
EmptyDict == Dict(<<>>)

IsDict(j) == "dict" \in DOMAIN j
IsNum(j) == "num" \in DOMAIN j
IsList(j) == "list" \in DOMAIN j

\* bool(j): None, 0, "", [] and {} are false
Truthy(j) ==
    CASE "num" \in DOMAIN j -> j.num # 0
      [] "str" \in DOMAIN j -> j.str # <<>>
      [] "null" \in DOMAIN j -> FALSE
      [] "list" \in DOMAIN j -> j.list # <<>>
      [] "dict" \in DOMAIN j -> DOMAIN j.dict # {}

\* d.get(key, default); only a dict has .get (AttributeError otherwise)
DictGet(d, key, default) ==
    IF ~IsDict(d) THEN Raise("AttributeError")
    ELSE IF key \in DOMAIN d.dict THEN Return(d.dict[key]) ELSE Return(default)

RECURSIVE SumNums(_)
SumNums(l) == IF l = <<>> THEN 0 ELSE Head(l).num + SumNums(Tail(l))

\* sum(clouds_list) / len(clouds_list), in hundredths; TypeError unless the
\* value is a list of numbers (reached with a truthy value only)
Mean(j) ==
    IF IsList(j) /\ \A i \in 1..Len(j.list) : IsNum(j.list[i])
    THEN Return(RoundDiv(SumNums(j.list), Len(j.list)))
    ELSE Raise("TypeError")

\* A reply of session.get(url, timeout=8): an exception of the transport, or
\* a status with a body that is JSON text or not
IsTransportFailure(resp) == "exc" \in DOMAIN resp
IsErrorStatus(resp) == "status" \in DOMAIN resp /\ resp.status >= 400
IsNotJson(resp) == "status" \in DOMAIN resp /\ "json" \notin DOMAIN resp

\* res = session.get(..); res.raise_for_status(); data = res.json()
ResponseJson(resp) ==
    IF IsTransportFailure(resp) THEN Raise(resp.exc)
    ELSE IF IsErrorStatus(resp) THEN Raise("HTTPError")
    ELSE IF IsNotJson(resp) THEN Raise("JSONDecodeError")
    ELSE Return(resp.json)

---------------------------------------------------------------------------
(* Gateways                                                                *)

\* a weather sample (temp, clouds): temp is the payload's value whatever its
\* type, clouds a number in hundredths of a percent
Sample(temp, clouds) == [temp |-> temp, clouds |-> clouds]
Fallback == Sample(Num(2500), 0)

\* the try block of get_weather_data_cached
WeatherTry(resp) ==
    LET data == ResponseJson(resp) IN
    IF Raised(data) THEN data ELSE
    LET cw == DictGet(data.val, "current_weather", EmptyDict) IN
    IF Raised(cw) THEN cw ELSE
    LET temp == DictGet(cw.val, "temperature", Num(2500)) IN
    IF Raised(temp) THEN temp ELSE
    LET hourly == DictGet(data.val, "hourly", EmptyDict) IN
    IF Raised(hourly) THEN hourly ELSE
    LET clouds_list == DictGet(hourly.val, "cloudcover", List(<<Num(0)>>)) IN
    IF Raised(clouds_list) THEN clouds_list ELSE
    LET clouds == IF Truthy(clouds_list.val) THEN Mean(clouds_list.val) ELSE Return(0) IN
    IF Raised(clouds) THEN clouds ELSE
    Return(Sample(temp.val, clouds.val))

\* get_weather_data_cached's body on the reply of the weather service
get_weather_data_cached(resp) ==
    LET r == WeatherTry(resp) IN IF Raised(r) THEN Fallback ELSE r.val

Unknown == <<"U", "n", "k", "n", "o", "w", "n">>

\* addr.get(field): only a dict has .get; a missing field is None; the value
\* of a str field is the str
AddrGet(addr, field) ==
    IF field \in DOMAIN addr.dict THEN addr.dict[field] ELSE Null

\* a or b or ..: the first truthy value of the fields in order, else "Unknown"
RECURSIVE FirstTruthy(_, _)
FirstTruthy(addr, fields) ==
    IF fields = <<>> THEN Unknown
    ELSE IF Truthy(AddrGet(addr, Head(fields))) THEN AddrGet(addr, Head(fields)).str
    ELSE FirstTruthy(addr, Tail(fields))

\* AddressFields with a slip: the state is preferred
AddressFields_state_first == <<"state", "city", "town", "village">>

AddressFields == <<"city", "town", "village", "state">>

\* the try block of get_region_name_from_coords_cached
RegionTry(resp) ==
    LET data == ResponseJson(resp) IN
    IF Raised(data) THEN data ELSE
    LET addr == DictGet(data.val, "address", EmptyDict) IN
    IF Raised(addr) THEN addr ELSE
    IF ~IsDict(addr.val) THEN Raise("AttributeError") ELSE
    Return(FirstTruthy(addr.val, AddressFields))

\* get_region_name_from_coords_cached's body on the reply of the geocoder
get_region_name_from_coords_cached(resp) ==
    LET r == RegionTry(resp) IN IF Raised(r) THEN Unknown ELSE r.val

\* the cache key of both gateways: (round(lat, 4), round(lon, 4))
CacheKey(lat, lon) == <<round4(lat), round4(lon)>>

(* functools.lru_cache: a sequence of [key, val], least recently used first *)

CacheKeys(cache) == {cache[i].key : i \in 1..Len(cache)}
CacheIndex(cache, key) == CHOOSE i \in 1..Len(cache) : cache[i].key = key
CacheGet(cache, key) == cache[CacheIndex(cache, key)].val

\* lru_hit with a slip: the entry keeps its place (first in, first out)
lru_hit_in_place(cache, key) == cache

\* a hit moves the entry to the most recently used end
lru_hit(cache, key) ==
    LET i == CacheIndex(cache, key)
    IN  SubSeq(cache, 1, i - 1) \o SubSeq(cache, i + 1, Len(cache)) \o <<cache[i]>>

\* lru_store with a slip: a full cache drops nothing
lru_store_unbounded(cache, key, val) ==
    IF key \in CacheKeys(cache) THEN cache
    ELSE Append(cache, [key |-> key, val |-> val])

\* after the wrapped function returned: nothing if the key was stored during
\* the call, else store it, dropping the least recently used entry of a full
\* cache
lru_store(cache, key, val) ==
    IF key \in CacheKeys(cache) THEN cache
    ELSE IF Len(cache) >= maxsize THEN Append(Tail(cache), [key |-> key, val |-> val])
    ELSE Append(cache, [key |-> key, val |-> val])

---------------------------------------------------------------------------
(* Astronomical and energy model                                           *)

\* today.timetuple().tm_yday: the days of the year a behaviour may run on
Days == {172}

\* declination_angle(n) = 23.45 * sin(radians(360 * (284 + n) / 365)), in
\* 1e-4 degrees, tabulated
declination_angle(n) == CASE n = 172 -> 234498

\* daylight_hours(latitude, decl) in 1e-4 hours, tabulated from
\* (2 * acos(-tan(lat) * tan(decl)) * 180 / pi) / 15; 0 where acos raises
\* ValueError (|tan(lat) * tan(decl)| > 1).  latitude is in 1e-5 degrees.
daylight_hours(latitude, decl) ==
    CASE decl = 234498 /\ latitude \in {1000000, 1000001, 1000004} -> 125849
      [] decl = 234498 /\ latitude = 2050000 -> 132445
      [] decl = 234498 /\ latitude = 8000000 -> 0

\* solar_intensity(cloud_cover) = round(1367 * (1 - cloud_cover / 100), 2)
solar_intensity(cloud_cover) == RoundDiv(SOLAR_CONSTANT * (10000 - cloud_cover), 100)

\* calculate_energy(intensity, daylight) =
\* round((intensity * daylight * 3600) / 1_000_000, 2), i.e. in hundredths
\* intensity * daylight * 9 / 25000000 of the scaled arguments; the product
\* is split so that no intermediate value exceeds 32 bits
calculate_energy(intensity, daylight) ==
    LET i9 == intensity * 9
        a == i9 * (daylight \div 1000)
        b == i9 * (daylight % 1000)
    IN  (a \div 25000) + RoundDiv((a % 25000) * 1000 + b, 25000000)

\* round(daylight, 2)
round2_hours(daylight) == RoundDiv(daylight, 100)

---------------------------------------------------------------------------
(* Catalog, ranking and the query log                                      *)

File(rows) == [exists |-> TRUE, rows |-> rows]
Missing == [exists |-> FALSE, rows |-> <<>>]

\* one catalog row of csv.DictReader: parsed, or skipped when float() raises
RowOk(row) == ~Raised(float(row.latitude)) /\ ~Raised(float(row.longitude))

RECURSIVE ParseRows(_)
ParseRows(rows) ==
    IF rows = <<>> THEN <<>>
    ELSE IF RowOk(Head(rows))
         THEN <<[region |-> Head(rows).region,
                 latitude |-> float(Head(rows).latitude).val,
                 longitude |-> float(Head(rows).longitude).val]>> \o ParseRows(Tail(rows))
         ELSE ParseRows(Tail(rows))

\* read_regions(file_path)
read_regions(file) == IF file.exists THEN ParseRows(file.rows) ELSE <<>>

\* the record index() and process_and_save_top_regions() build for one point
EnergyResult(region, day, latitude, sample) ==
    LET daylight == daylight_hours(latitude, declination_angle(day))
        intensity == solar_intensity(sample.clouds)
    IN  [region |-> region, date |-> day, time |-> "now", temp |-> sample.temp,
         cloud |-> sample.clouds, intensity |-> intensity,
         daylight |-> round2_hours(daylight),
         energy |-> calculate_energy(intensity, daylight)]

\* pd.DataFrame(results): the rows with their index 0..n-1
DataFrame(results) == [i \in 1..Len(results) |-> [index |-> i - 1, row |-> results[i]]]

\* sort_values(kind='quicksort'), the default, does not fix the order of
\* rows of equal energy: the orders a build may give them
TieOrders == {"kept", "reversed"}

\* row i comes before row j in the sorted frame
Before(df, i, j, tie) ==
    \/ df[i].row.energy > df[j].row.energy
    \/ /\ df[i].row.energy = df[j].row.energy
       /\ \/ tie = "kept" /\ i < j
          \/ tie = "reversed" /\ i > j

\* sort_values with a slip: ascending=True
sort_values_ascending(df, tie) ==
    [p \in 1..Len(df) |->
        df[CHOOSE i \in 1..Len(df) :
              Cardinality({j \in 1..Len(df) : Before(df, i, j, tie)}) = p - 1]]

\* df.sort_values(by='energy', ascending=False)
sort_values(df, tie) ==
    [p \in 1..Len(df) |->
        df[CHOOSE i \in 1..Len(df) :
              Cardinality({j \in 1..Len(df) : Before(df, j, i, tie)}) = p - 1]]

\* df.head(10)
head(df) == SubSeq(df, 1, IF Len(df) < head_n THEN Len(df) ELSE head_n)

\* to_csv(index=False): the rows without the index
to_csv(df) == [i \in 1..Len(df) |-> df[i].row]

\* the header row of User_Query.csv: result.keys()
Header == [header |-> <<"region", "date", "time", "temp", "cloud", "intensity",
                        "daylight", "energy">>]

---------------------------------------------------------------------------
(* Request threads                                                         *)

Threads == {1, 2}
Nothing == [none |-> TRUE]

\* a thread between requests
Idle ==
    [pc |-> "idle", ret |-> "", lat |-> 0, lon |-> 0, day |-> 0,
     sample |-> Nothing, name |-> None, res |-> Nothing, hit |-> FALSE,
     form |-> Nothing, region |-> None, resolved |-> FALSE, result |-> Nothing,
     write_header |-> FALSE, regions |-> <<>>, results |-> <<>>,
     df |-> <<>>, ranked |-> FALSE]

FormGet(form, key, default) == IF key \in DOMAIN form THEN form[key] ELSE default

\* Coordinates with a slip: a blank longitude counts as 0.0
Coordinates_blank_is_zero(form) ==
    LET lat_str == strip(FormGet(form, "latitude", <<>>))
        lon_str == strip(FormGet(form, "longitude", <<>>))
        flat == IF lat_str # <<>> THEN float(lat_str) ELSE Nothing
        flon == IF lon_str # <<>> THEN float(lon_str) ELSE Return(0)
    IN  IF Raised(flat) \/ Raised(flon)
        THEN [latitude |-> Nothing, longitude |-> Nothing]
        ELSE [latitude |-> flat, longitude |-> flon]

\* index(): lat_str, lon_str and the two float() calls in one try block
Coordinates(form) ==
    LET lat_str == strip(FormGet(form, "latitude", <<>>))
        lon_str == strip(FormGet(form, "longitude", <<>>))
        flat == IF lat_str # <<>> THEN float(lat_str) ELSE Nothing
        flon == IF lon_str # <<>> THEN float(lon_str) ELSE Nothing
    IN  IF Raised(flat) \/ Raised(flon)
        THEN [latitude |-> Nothing, longitude |-> Nothing]
        ELSE [latitude |-> flat, longitude |-> flon]

\* x is None, for a float or None held as [val |-> x] or Nothing
IsNone(x) == "none" \in DOMAIN x

\* Blank with a slip: the name is not stripped
Blank_unstripped(region) == region = None \/ region = <<>>

\* not region or region.strip() == ""
Blank(region) == region = None \/ region = <<>> \/ strip(region) = <<>>

ErrorResult == [error |-> "Please allow location access or enter latitude/longitude."]

---------------------------------------------------------------------------
(* Steps of a thread.  A gateway call is two steps, the cache lookup and,  *)
(* on a miss, the external request with the store that follows it; the     *)
(* caller's code up to its next access to shared state runs with the       *)
(* return.                                                                 *)

Frame(t, f) == th' = [th EXCEPT ![t] = f]

\* get_weather_data(lat, lon) called, to return to `ret`
CallWeatherFrom(f, lat, lon, ret) ==
    [f EXCEPT !.pc = "weather_lookup", !.ret = ret, !.lat = lat, !.lon = lon]

\* get_region_name_from_coords(lat, lon) called, to return to `ret`
CallRegionFrom(f, lat, lon, ret) ==
    [f EXCEPT !.pc = "region_lookup", !.ret = ret, !.lat = lat, !.lon = lon,
              !.resolved = TRUE]

\* process_and_save_top_regions(), lines 110-127: the next catalog entry's
\* weather is fetched, or the loop is over
NextRegion(f) ==
    IF Len(f.results) < Len(f.regions)
    THEN LET r == f.regions[Len(f.results) + 1]
         IN CallWeatherFrom(f, r.latitude, r.longitude, "rank_loop")
    ELSE [f EXCEPT !.pc = "rank_save"]

\* the locals of a gateway call are gone once it has returned
Returned(f) == [f EXCEPT !.res = Nothing, !.hit = FALSE, !.sample = Nothing,
                         !.name = None]

\* the caller's code after a gateway call returned
Resume(f) ==
    CASE f.ret = "index_region" ->
            \* region = get_region_name_from_coords(latitude, longitude)
            CallWeatherFrom(Returned([f EXCEPT !.region = f.name]),
                            f.lat, f.lon, "index_weather")
      [] f.ret = "index_weather" ->
            \* lines 207-219
            Returned([f EXCEPT !.pc = "log_exists",
                               !.result = EnergyResult(f.region, f.day, f.lat, f.sample)])
      [] f.ret = "rank_loop" ->
            \* lines 114-127
            LET r == f.regions[Len(f.results) + 1]
            IN NextRegion(Returned([f EXCEPT !.results =
                   Append(@, EnergyResult(r.region, f.day, r.latitude, f.sample))]))
      [] f.ret = "caller" -> [f EXCEPT !.pc = "done"]

\* get_weather_data: the lookup in the cache of get_weather_data_cached
WeatherLookup(t) ==
    LET f == th[t]
        key == CacheKey(f.lat, f.lon)
    IN  /\ f.pc = "weather_lookup"
        /\ IF key \in CacheKeys(weather_cache)
           THEN /\ weather_cache' = lru_hit(weather_cache, key)
                /\ Frame(t, Resume([f EXCEPT !.sample = CacheGet(weather_cache, key),
                                             !.hit = TRUE, !.res = Nothing]))
                /\ last_sample' = (key :> CacheGet(weather_cache, key)) @@ last_sample
                /\ recency' = SelectSeq(recency, LAMBDA k : k # key) \o <<key>>
           ELSE /\ Frame(t, [f EXCEPT !.pc = "weather_call"])
                /\ UNCHANGED <<weather_cache, last_sample, recency>>
        /\ UNCHANGED <<region_cache, REGION_FILE, USER_QUERIES_FILE, TOP_REGIONS_FILE,
                       served>>

\* get_weather_data_cached runs: the request to the weather service, its
\* reply, and lru_cache storing the returned sample
WeatherCall(t, replies) ==
    LET f == th[t]
        key == CacheKey(f.lat, f.lon)
    IN  /\ f.pc = "weather_call"
        /\ \E resp \in replies :
             LET sample == get_weather_data_cached(resp) IN
             /\ weather_cache' = lru_store(weather_cache, key, sample)
             /\ Frame(t, Resume([f EXCEPT !.sample = sample, !.hit = FALSE,
                                          !.res = resp]))
             /\ last_sample' = (key :> sample) @@ last_sample
        /\ recency' = SelectSeq(recency, LAMBDA k : k # key) \o <<key>>
        /\ UNCHANGED <<region_cache, REGION_FILE, USER_QUERIES_FILE, TOP_REGIONS_FILE,
                       served>>

\* get_region_name_from_coords: the lookup in the cache of
\* get_region_name_from_coords_cached
RegionLookup(t) ==
    LET f == th[t]
        key == CacheKey(f.lat, f.lon)
    IN  /\ f.pc = "region_lookup"
        /\ IF key \in CacheKeys(region_cache)
           THEN /\ region_cache' = lru_hit(region_cache, key)
                /\ Frame(t, Resume([f EXCEPT !.name = CacheGet(region_cache, key),
                                             !.hit = TRUE, !.res = Nothing]))
           ELSE /\ Frame(t, [f EXCEPT !.pc = "region_call"])
                /\ UNCHANGED region_cache
        /\ UNCHANGED <<weather_cache, REGION_FILE, USER_QUERIES_FILE, TOP_REGIONS_FILE,
                       served, last_sample, recency>>

\* get_region_name_from_coords_cached runs: the request to the geocoder, its
\* reply, and lru_cache storing the returned name
RegionCall(t, replies) ==
    LET f == th[t]
        key == CacheKey(f.lat, f.lon)
    IN  /\ f.pc = "region_call"
        /\ \E resp \in replies :
             LET name == get_region_name_from_coords_cached(resp) IN
             /\ region_cache' = lru_store(region_cache, key, name)
             /\ Frame(t, Resume([f EXCEPT !.name = name, !.hit = FALSE, !.res = resp]))
        /\ UNCHANGED <<weather_cache, REGION_FILE, USER_QUERIES_FILE, TOP_REGIONS_FILE,
                       served, last_sample, recency>>

---------------------------------------------------------------------------
(* index() and process_and_save_top_regions()                              *)

\* index() up to its first access to shared state: a GET renders the page;
\* a POST without two coordinates renders the error; else the region name
\* is resolved when the form gives none, and the weather fetched
Begin(t, method, form) ==
    LET f == [Idle EXCEPT !.form = form, !.day = CHOOSE d \in Days : TRUE]
        c == Coordinates(form)
        region == FormGet(form, "region", None)
    IN  /\ th[t].pc = "idle"
        /\ served < MaxRequests
        /\ served' = served + 1
        /\ Frame(t,
             IF method = "GET" THEN [f EXCEPT !.pc = "done", !.form = Nothing]
             ELSE IF IsNone(c.latitude) \/ IsNone(c.longitude)
                  THEN [f EXCEPT !.pc = "done", !.result = ErrorResult]
             ELSE IF Blank(region)
                  THEN CallRegionFrom(f, c.latitude.val, c.longitude.val, "index_region")
             ELSE CallWeatherFrom([f EXCEPT !.region = region],
                                  c.latitude.val, c.longitude.val, "index_weather"))
        /\ UNCHANGED <<weather_cache, region_cache, REGION_FILE, USER_QUERIES_FILE,
                       TOP_REGIONS_FILE, last_sample, recency>>

\* write_header = not os.path.exists(USER_QUERIES_FILE)
LogExists(t) ==
    /\ th[t].pc = "log_exists"
    /\ Frame(t, [th[t] EXCEPT !.pc = "log_open",
                              !.write_header = ~USER_QUERIES_FILE.exists])
    /\ UNCHANGED <<weather_cache, region_cache, REGION_FILE, USER_QUERIES_FILE,
                   TOP_REGIONS_FILE, served, last_sample, recency>>

\* open(USER_QUERIES_FILE, 'a'): creates the file if there is none
LogOpen(t) ==
    /\ th[t].pc = "log_open"
    /\ USER_QUERIES_FILE' = [USER_QUERIES_FILE EXCEPT !.exists = TRUE]
    /\ Frame(t, [th[t] EXCEPT !.pc = "log_write"])
    /\ UNCHANGED <<weather_cache, region_cache, REGION_FILE, TOP_REGIONS_FILE,
                   served, last_sample, recency>>

\* writeheader() if write_header, writerow(result), and the close that
\* appends both to the file
LogWrite(t) ==
    /\ th[t].pc = "log_write"
    /\ USER_QUERIES_FILE' =
          [USER_QUERIES_FILE EXCEPT !.rows =
              @ \o (IF th[t].write_header THEN <<Header>> ELSE <<>>)
                \o <<[row |-> th[t].result]>>]
    /\ Frame(t, [th[t] EXCEPT !.pc = "rank_read"])
    /\ UNCHANGED <<weather_cache, region_cache, REGION_FILE, TOP_REGIONS_FILE,
                   served, last_sample, recency>>

\* process_and_save_top_regions(), lines 102-108: the catalog is read
RankRead(t) ==
    /\ th[t].pc = "rank_read"
    /\ Frame(t, NextRegion([th[t] EXCEPT !.regions = read_regions(REGION_FILE),
                                         !.results = <<>>]))
    /\ UNCHANGED <<weather_cache, region_cache, REGION_FILE, USER_QUERIES_FILE,
                   TOP_REGIONS_FILE, served, last_sample, recency>>

\* process_and_save_top_regions(), lines 129-133
RankSave(t) ==
    LET df == DataFrame(th[t].results)
    IN  /\ th[t].pc = "rank_save"
        /\ IF df # <<>>
           THEN \E tie \in TieOrders :
                  LET top == head(sort_values(df, tie)) IN
                  /\ TOP_REGIONS_FILE' = File(to_csv(top))
                  /\ Frame(t, [th[t] EXCEPT !.pc = "done", !.df = top, !.ranked = TRUE,
                                            !.regions = <<>>, !.results = <<>>])
           ELSE /\ UNCHANGED TOP_REGIONS_FILE
                /\ Frame(t, [th[t] EXCEPT !.pc = "done", !.df = df, !.ranked = TRUE,
                                            !.regions = <<>>, !.results = <<>>])
        /\ UNCHANGED <<weather_cache, region_cache, REGION_FILE, USER_QUERIES_FILE,
                       served, last_sample, recency>>

\* render_template(..) returns the page; the thread is free again
Finish(t) ==
    /\ th[t].pc = "done"
    /\ Frame(t, Idle)
    /\ UNCHANGED <<weather_cache, region_cache, REGION_FILE, USER_QUERIES_FILE,
                   TOP_REGIONS_FILE, served, last_sample, recency>>

\* the catalog file is replaced from outside the program
ReplaceCatalog(file) ==
    /\ REGION_FILE # file
    /\ REGION_FILE' = file
    /\ UNCHANGED <<weather_cache, region_cache, USER_QUERIES_FILE, TOP_REGIONS_FILE,
                   th, served, last_sample, recency>>

(* Direct calls of the gateways and of the ranking                         *)

CallWeather(t, lat, lon) ==
    /\ th[t].pc = "idle"
    /\ Frame(t, CallWeatherFrom(Idle, lat, lon, "caller"))
    /\ UNCHANGED <<weather_cache, region_cache, REGION_FILE, USER_QUERIES_FILE,
                   TOP_REGIONS_FILE, served, last_sample, recency>>

CallRegion(t, lat, lon) ==
    /\ th[t].pc = "idle"
    /\ Frame(t, CallRegionFrom(Idle, lat, lon, "caller"))
    /\ UNCHANGED <<weather_cache, region_cache, REGION_FILE, USER_QUERIES_FILE,
                   TOP_REGIONS_FILE, served, last_sample, recency>>

CallRank(t) ==
    /\ th[t].pc = "idle"
    /\ served < MaxRequests
    /\ served' = served + 1
    /\ Frame(t, [Idle EXCEPT !.pc = "rank_read", !.day = CHOOSE d \in Days : TRUE])
    /\ UNCHANGED <<weather_cache, region_cache, REGION_FILE, USER_QUERIES_FILE,
                   TOP_REGIONS_FILE, last_sample, recency>>

---------------------------------------------------------------------------
(* Inputs                                                                  *)

\* "10.00001", " 10.00004 " and "10.0" round to one cache key, "20.5" and
\* " 80 " to two others; at latitude 80 on day 172 acos raises and daylight
\* is 0
Lat10a == <<"1", "0", ".", "0", "0", "0", "0", "1">>
Lat10b == <<" ", "1", "0", ".", "0", "0", "0", "0", "4", " ">>
Lat10 == <<"1", "0", ".", "0">>
Lat80 == <<" ", "8", "0", " ">>
Lon77 == <<"7", "7", ".", "0">>
Abc == <<"a", "b", "c">>
Spaces == <<" ", " ">>
Pune == <<"P", "u", "n", "e">>
Agra == <<"A", "g", "r", "a">>
Leh == <<"L", "e", "h">>
Goa == <<"G", "o", "a">>

\* request.form of the requests a behaviour may serve
InvalidForms ==
    { [longitude |-> Lon77, region |-> Pune],
      [latitude |-> Abc, longitude |-> Lon77],
      [latitude |-> Lat10a, longitude |-> Spaces, region |-> Pune],
      [latitude |-> Lat10a, longitude |-> Abc] }

ValidForms ==
    { [latitude |-> Lat10a, longitude |-> Lon77],
      [latitude |-> Lat10a, longitude |-> Lon77, region |-> Spaces],
      [latitude |-> Lat10a, longitude |-> Lon77, region |-> <<>>],
      [latitude |-> Lat10b, longitude |-> Lon77, region |-> Agra] }

Forms == InvalidForms \cup ValidForms

\* csv/india_regions.csv as a behaviour may find it
RowAgra == [region |-> Agra, latitude |-> Lat10, longitude |-> Lon77]
RowLeh == [region |-> Leh, latitude |-> Lat80, longitude |-> Lon77]
RowBad == [region |-> Goa, latitude |-> Abc, longitude |-> Lon77]

Catalogs == {Missing, File(<<RowBad, RowAgra>>)}

\* every catalog of at most n rows of two regions
RECURSIVE RowsUpTo(_)
RowsUpTo(n) ==
    IF n = 0 THEN {<<>>}
    ELSE LET shorter == RowsUpTo(n - 1)
         IN shorter \cup {Append(rows, r) : rows \in {x \in shorter : Len(x) = n - 1},
                                            r \in {RowAgra, RowLeh}}

\* replies of the weather service
OkJson(j) == [status |-> 200, json |-> j]
Weather(temp, cloudcover) ==
    OkJson(Dict([current_weather |-> Dict([temperature |-> temp]),
                 hourly |-> Dict([cloudcover |-> cloudcover])]))

ConnectionError == [exc |-> "ConnectionError"]
Timeout == [exc |-> "Timeout"]
ServerError == [status |-> 500, text |-> "Internal Server Error"]
NotJson == [status |-> 200, text |-> "<html>"]

Clear == Weather(Num(2000), List(<<Num(0)>>))
Cloudy == Weather(Num(3000), List(<<Num(5000), Num(10000)>>))

WeatherReplies ==
    { ConnectionError, Timeout, ServerError, NotJson, Clear, Cloudy,
      OkJson(List(<<>>)),
      OkJson(EmptyDict),
      OkJson(Dict([current_weather |-> Null])),
      OkJson(Dict([hourly |-> List(<<>>)])),
      Weather(Num(3000), List(<<>>)),
      Weather(Num(3000), List(<<Null, Num(1000)>>)),
      Weather(Num(3000), Num(4000)),
      Weather(Num(3000), Null),
      Weather(Str(<<"h", "o", "t">>), List(<<Num(2000)>>)),
      Weather(Null, List(<<Num(2000)>>)) }

FewWeatherReplies == {Timeout, Cloudy}

\* replies of the geocoder
Address(addr) == OkJson(Dict([address |-> addr]))

RegionReplies ==
    { ConnectionError, Timeout, ServerError, NotJson,
      OkJson(List(<<>>)),
      OkJson(EmptyDict),
      Address(EmptyDict),
      Address(Null),
      Address(List(<<>>)),
      Address(Dict([city |-> Str(Pune), state |-> Str(Goa)])),
      Address(Dict([town |-> Str(Agra), village |-> Str(Leh), state |-> Str(Goa)])),
      Address(Dict([village |-> Str(Leh), state |-> Str(Goa)])),
      Address(Dict([state |-> Str(Goa)])),
      Address(Dict([city |-> Str(<<>>), state |-> Str(Goa)])),
      Address(Dict([city |-> Null, town |-> Str(Agra)])),
      Address(Dict([country |-> Str(Goa)])) }

FewRegionReplies == {Address(Dict([city |-> Str(Pune), state |-> Str(Goa)]))}

\* coordinates of the direct gateway calls, in 1e-5 degrees
Points == {<<1000001, 7700000>>, <<1000004, 7700000>>, <<2050000, 7700000>>,
           <<8000000, 7700000>>}
FewPoints == {<<2050000, 7700000>>, <<8000000, 7700000>>}

---------------------------------------------------------------------------
(* Specifications                                                          *)

EmptyMap == [k \in {} |-> Nothing]

\* the program as started: empty caches, no log, no snapshot
Init ==
    /\ weather_cache = <<>>
    /\ region_cache = <<>>
    /\ REGION_FILE \in Catalogs
    /\ USER_QUERIES_FILE = Missing
    /\ TOP_REGIONS_FILE = Missing
    /\ th = [t \in Threads |-> Idle]
    /\ served = 0
    /\ last_sample = EmptyMap
    /\ recency = <<>>

Step(t) ==
    \/ \E form \in Forms : Begin(t, "POST", form)
    \/ Begin(t, "GET", Nothing)
    \/ RegionLookup(t)
    \/ RegionCall(t, FewRegionReplies)
    \/ WeatherLookup(t)
    \/ WeatherCall(t, FewWeatherReplies)
    \/ LogExists(t)
    \/ LogOpen(t)
    \/ LogWrite(t)
    \/ RankRead(t)
    \/ RankSave(t)
    \/ Finish(t)

Next ==
    \/ \E t \in Threads : Step(t)
    \/ \E file \in Catalogs : ReplaceCatalog(file)

\* the application served by a threaded host (app.run)
Spec == Init /\ [][Next]_vars

\* one caller of the two gateways, from the program as started, under every
\* reply of the two services
InitGateway ==
    /\ weather_cache = <<>>
    /\ region_cache = <<>>
    /\ REGION_FILE = Missing
    /\ USER_QUERIES_FILE = Missing
    /\ TOP_REGIONS_FILE = Missing
    /\ th = [t \in Threads |-> Idle]
    /\ served = 0
    /\ last_sample = EmptyMap
    /\ recency = <<>>

NextGateway ==
    \/ \E p \in FewPoints : CallWeather(1, p[1], p[2])
    \/ \E p \in FewPoints : CallRegion(1, p[1], p[2])
    \/ WeatherLookup(1)
    \/ WeatherCall(1, WeatherReplies)
    \/ RegionLookup(1)
    \/ RegionCall(1, RegionReplies)
    \/ Finish(1)

SpecGateway == InitGateway /\ [][NextGateway]_vars

\* the caches after maxsize - 1 distinct points were queried one after the
\* other, the first of them (10.00001, 77.0)
Filler(i) == <<0 - i, 0>>
WarmKeys == [i \in 1..(maxsize - 1) |->
                IF i = 1 THEN CacheKey(1000001, 7700000) ELSE Filler(i)]
WarmWeather == [i \in 1..(maxsize - 1) |->
                   [key |-> WarmKeys[i], val |-> get_weather_data_cached(Cloudy)]]
WarmRegion == [i \in 1..(maxsize - 1) |-> [key |-> WarmKeys[i], val |-> Pune]]

\* one caller of the weather gateway, after those queries
InitSeq ==
    /\ weather_cache = WarmWeather
    /\ region_cache = <<>>
    /\ REGION_FILE = Missing
    /\ USER_QUERIES_FILE = Missing
    /\ TOP_REGIONS_FILE = Missing
    /\ th = [t \in Threads |-> Idle]
    /\ served = 0
    /\ last_sample = [k \in {WarmKeys[i] : i \in 1..(maxsize - 1)} |->
                         get_weather_data_cached(Cloudy)]
    /\ recency = WarmKeys

NextSeq ==
    \/ \E p \in Points : CallWeather(1, p[1], p[2])
    \/ WeatherLookup(1)
    \/ WeatherCall(1, FewWeatherReplies)
    \/ Finish(1)

SpecSeq == InitSeq /\ [][NextSeq]_vars

\* callers of the two gateways on every thread, after those queries; the
\* history starts with the behaviour
InitWarm ==
    /\ weather_cache = WarmWeather
    /\ region_cache = WarmRegion
    /\ REGION_FILE = Missing
    /\ USER_QUERIES_FILE = Missing
    /\ TOP_REGIONS_FILE = Missing
    /\ th = [t \in Threads |-> Idle]
    /\ served = 0
    /\ last_sample = EmptyMap
    /\ recency = <<>>

NextWarm ==
    \E t \in Threads :
        \/ \E p \in Points : CallWeather(t, p[1], p[2])
        \/ \E p \in FewPoints : CallRegion(t, p[1], p[2])
        \/ WeatherLookup(t)
        \/ WeatherCall(t, {Clear})
        \/ RegionLookup(t)
        \/ RegionCall(t, FewRegionReplies)
        \/ Finish(t)

SpecWarm == InitWarm /\ [][NextWarm]_vars

\* one ranking pass over each catalog of at most MaxCatalog rows
InitRank ==
    /\ weather_cache = <<>>
    /\ region_cache = <<>>
    /\ REGION_FILE \in {File(rows) : rows \in RowsUpTo(MaxCatalog)}
    /\ USER_QUERIES_FILE = Missing
    /\ TOP_REGIONS_FILE = Missing
    /\ th = [t \in Threads |-> Idle]
    /\ served = 0
    /\ last_sample = EmptyMap
    /\ recency = <<>>

NextRank ==
    \/ served = 0 /\ CallRank(1)
    \/ RankRead(1)
    \/ WeatherLookup(1)
    \/ WeatherCall(1, FewWeatherReplies)
    \/ RankSave(1)
    \/ Finish(1)

SpecRank == InitRank /\ [][NextRank]_vars

---------------------------------------------------------------------------
(* Properties                                                              *)

Key(t) == CacheKey(th[t].lat, th[t].lon)

\* thread t returns from get_weather_data to a direct caller in this step
WeatherReturns(t) ==
    /\ th[t].pc \in {"weather_lookup", "weather_call"}
    /\ th'[t].pc = "done"

\* fewer than 512 other distinct keys were fetched since the last call with
\* this key
RecentlyFetched(key) ==
    \E i \in 1..Len(recency) : recency[i] = key /\ Len(recency) - i < 512

\* C1 as claimed: whenever a call's rounded key was fetched before, the call
\* returns the sample the earlier call returned and makes no external request
C1_AnySequence ==
    [][\A t \in Threads :
         (WeatherReturns(t) /\ Key(t) \in DOMAIN last_sample)
            => /\ th[t].pc = "weather_lookup"
               /\ th'[t].sample = last_sample[Key(t)]]_vars

\* C1 as amended: for calls made one after the other, a call whose rounded key
\* was fetched before, with fewer than 512 other distinct rounded keys fetched
\* since, returns the sample the earlier call returned and makes no external
\* request
C1_WhileCached ==
    [][\A t \in Threads :
         (WeatherReturns(t) /\ RecentlyFetched(Key(t)))
            => /\ th[t].pc = "weather_lookup"
               /\ th'[t].sample = last_sample[Key(t)]]_vars

\* C1's case: (10.00004, 77.0) is served from the entry of (10.00001, 77.0)
C1_Witness ==
    /\ th[1].pc = "done" /\ th[1].hit
    /\ th[1].lat = 1000004
    /\ CacheKey(1000001, 7700000) = CacheKey(1000004, 7700000)
    /\ th[1].sample = last_sample[CacheKey(1000001, 7700000)]

\* a direct call of get_weather_data that ran the request has returned
WeatherDone(t) ==
    th[t].pc = "done" /\ th[t].sample # Nothing /\ th[t].res # Nothing

\* the payload the weather service documents: an object whose
\* current_weather, if any, is an object whose temperature, if any, is a
\* number, and whose hourly, if any, is an object whose cloudcover, if any, is
\* a list of numbers
Has(j, key) == key \in DOMAIN j.dict
WellFormedWeather(j) ==
    /\ IsDict(j)
    /\ Has(j, "current_weather") =>
          /\ IsDict(j.dict.current_weather)
          /\ Has(j.dict.current_weather, "temperature") =>
                IsNum(j.dict.current_weather.dict.temperature)
    /\ Has(j, "hourly") =>
          /\ IsDict(j.dict.hourly)
          /\ Has(j.dict.hourly, "cloudcover") =>
                /\ IsList(j.dict.hourly.dict.cloudcover)
                /\ \A i \in 1..Len(j.dict.hourly.dict.cloudcover.list) :
                      IsNum(j.dict.hourly.dict.cloudcover.list[i])

\* a transport failure, a timeout, a non-success status or a malformed payload
FailedWeatherReply(resp) ==
    \/ "exc" \in DOMAIN resp
    \/ resp.status # 200
    \/ "json" \notin DOMAIN resp
    \/ ~WellFormedWeather(resp.json)

\* C2: a fetch whose reply is a transport failure, a timeout, a non-success
\* status or a malformed payload returns exactly the fallback sample (25.0, 0.0)
C2_FallbackOnFailure ==
    \A t \in Threads :
        (WeatherDone(t) /\ FailedWeatherReply(th[t].res)) => th[t].sample = Fallback

\* a ranking pass has returned to a direct caller
Ranked == th[1].pc = "done" /\ th[1].ranked

\* the results computed from the entries of catalog cat on day d
Computed(cat, d) ==
    [j \in 1..Len(cat) |->
        EnergyResult(cat[j].region, d, cat[j].latitude,
                     last_sample[CacheKey(cat[j].latitude, cat[j].longitude)])]

\* the catalog entries that are in the frame df, by their place in the catalog
Included(df) == {df[a].index + 1 : a \in 1..Len(df)}

\* C3: a pass over a catalog of n regions returns min(10, n) results, each
\* computed from a catalog entry of its own, in non-increasing order of energy,
\* and no entry left out has more energy than one kept; none for n = 0
C3_RankedSnapshot ==
    Ranked =>
        LET df == th[1].df
            cat == read_regions(REGION_FILE)
            n == Len(cat)
            computed == Computed(cat, th[1].day)
            least == IF df = <<>> THEN 0 ELSE df[Len(df)].row.energy
        IN  /\ Len(df) = IF n < 10 THEN n ELSE 10
            /\ \A a \in 1..Len(df) :
                  /\ df[a].index \in 0..(n - 1)
                  /\ df[a].row = computed[df[a].index + 1]
            /\ Cardinality(Included(df)) = Len(df)
            /\ \A a \in 1..(Len(df) - 1) : df[a].row.energy >= df[a + 1].row.energy
            /\ \A j \in (1..n) \ Included(df) : computed[j].energy <= least

\* C3's case: eleven regions of two different energies, ten of them kept
C3_Witness ==
    /\ Ranked
    /\ Len(read_regions(REGION_FILE)) = 11
    /\ Len(th[1].df) = 10
    /\ th[1].df[1].row.energy > th[1].df[10].row.energy

\* C4: results of equal energy keep their catalog order, and of two entries of
\* equal energy on either side of the cut the earlier one is kept
C4_StableSort ==
    Ranked =>
        LET df == th[1].df
            cat == read_regions(REGION_FILE)
            computed == Computed(cat, th[1].day)
        IN  /\ \A a \in 1..(Len(df) - 1) :
                  df[a].row.energy = df[a + 1].row.energy => df[a].index < df[a + 1].index
            /\ \A j \in (1..Len(cat)) \ Included(df) :
                  computed[j].energy = df[Len(df)].row.energy => df[Len(df)].index < j - 1

\* the snapshot a file holds
Persisted(file) == IF file.exists THEN file.rows ELSE <<>>

\* C5: when a ranking pass completes, the persisted snapshot is the snapshot
\* the pass computed
C5_SnapshotReplaced ==
    [][\A t \in Threads :
         (th[t].pc = "rank_save" /\ th'[t].pc = "done")
            => Persisted(TOP_REGIONS_FILE') = to_csv(th'[t].df)]_vars

\* C6: a log that holds rows holds one header row, the first, and every other
\* row is an appended result
C6_OneHeader ==
    USER_QUERIES_FILE.rows # <<>> =>
        /\ USER_QUERIES_FILE.rows[1] = Header
        /\ \A i \in 2..Len(USER_QUERIES_FILE.rows) : USER_QUERIES_FILE.rows[i] # Header

\* a form field that is missing, blank or not a number
NotNumeric(form, key) ==
    \/ key \notin DOMAIN form
    \/ \A i \in 1..Len(form[key]) : form[key][i] = " "
    \/ Raised(float(form[key]))

InvalidQuery(form) == NotNumeric(form, "latitude") \/ NotNumeric(form, "longitude")

RegionDone(t) ==
    th[t].pc = "done" /\ th[t].resolved /\ th[t].res # Nothing

\* the address object of a reply, if it has one
HasAddress(resp) ==
    /\ "json" \in DOMAIN resp /\ resp.status = 200
    /\ IsDict(resp.json) /\ Has(resp.json, "address")
    /\ IsDict(resp.json.dict.address)
AddressOf(resp) == resp.json.dict.address

Present(addr, field) == Has(addr, field)
NonEmpty(addr, field) ==
    /\ Has(addr, field)
    /\ "str" \in DOMAIN addr.dict[field]
    /\ addr.dict[field].str # <<>>
Value(addr, field) ==
    IF "str" \in DOMAIN addr.dict[field] THEN addr.dict[field].str ELSE None

\* C8 as claimed: the first of city, town, village, state present in the reply
\* is returned, "Unknown" if none is
C8_FirstPresent ==
    \A t \in Threads :
        (RegionDone(t) /\ HasAddress(th[t].res)) =>
            LET a == AddressOf(th[t].res) IN
            th[t].name = IF Present(a, "city") THEN Value(a, "city")
                         ELSE IF Present(a, "town") THEN Value(a, "town")
                         ELSE IF Present(a, "village") THEN Value(a, "village")
                         ELSE IF Present(a, "state") THEN Value(a, "state")
                         ELSE Unknown

\* C8 as amended: the first of city, town, village, state present in the reply
\* with a non-empty value is returned, "Unknown" if none is, and "Unknown" for
\* a reply without an address object
C8_FirstNonEmpty ==
    \A t \in Threads :
        RegionDone(t) =>
            IF HasAddress(th[t].res)
            THEN LET a == AddressOf(th[t].res) IN
                 th[t].name = IF NonEmpty(a, "city") THEN Value(a, "city")
                              ELSE IF NonEmpty(a, "town") THEN Value(a, "town")
                              ELSE IF NonEmpty(a, "village") THEN Value(a, "village")
                              ELSE IF NonEmpty(a, "state") THEN Value(a, "state")
                              ELSE Unknown
            ELSE th[t].name = Unknown

\* C8's case: a reply with city and state resolved to the city
C8_Witness ==
    /\ RegionDone(1)
    /\ th[1].res = Address(Dict([city |-> Str(Pune), state |-> Str(Goa)]))
    /\ th[1].name = Pune

Distinct(cache) == Cardinality(CacheKeys(cache)) = Len(cache)

\* C9: each cache holds at most 512 entries, at most one for a key
C9_Bounded ==
    /\ Len(weather_cache) <= 512 /\ Distinct(weather_cache)
    /\ Len(region_cache) <= 512 /\ Distinct(region_cache)

\* C9's case: both caches are full and each has dropped its oldest entry, while
\* both threads are in a call of the weather gateway
C9_Witness ==
    /\ Len(weather_cache) = 512 /\ Len(region_cache) = 512
    /\ WarmKeys[1] \notin CacheKeys(weather_cache)
    /\ WarmKeys[1] \notin CacheKeys(region_cache)
    /\ \A t \in Threads : th[t].pc = "weather_call"

\* the form gives no region name: none, an empty one, or spaces
NoOverride(form) ==
    "region" \notin DOMAIN form \/ \A i \in 1..Len(form.region) : form.region[i] = " "

\* C10: a single-point query calls the geocoder exactly when the form gives no
\* region name and else reports the form's region name unchanged; a ranking
\* pass never calls the geocoder and reports the catalog's names
C10_RegionNaming ==
    \A t \in Threads :
        LET f == th[t] IN
        /\ (f.form # Nothing /\ ~InvalidQuery(f.form)) =>
              /\ f.resolved <=> NoOverride(f.form)
              /\ (f.result # Nothing /\ ~NoOverride(f.form)) =>
                    f.result.region = f.form.region
        /\ f.pc \in {"region_lookup", "region_call"} => f.ret # "rank_loop"
        /\ \A i \in 1..Len(f.results) : f.results[i].region = f.regions[i].region

\* C10's case: one query named by the geocoder has ranked a catalog while
\* another reports the region name of its form
C10_Witness ==
    \E t, u \in Threads :
        /\ th[t].pc = "done" /\ th[t].ranked /\ th[t].resolved
        /\ th[t].form = [latitude |-> Lat10a, longitude |-> Lon77, region |-> Spaces]
        /\ th[t].result.region = Pune
        /\ Len(th[t].df) = 1
        /\ th[u].result # Nothing /\ th[u].result # ErrorResult
        /\ th[u].form.region = Agra /\ th[u].result.region = Agra

=============================================================================
